---- MODULE Spec2Model ----
(***************************************************************************)
(* Model of notebooks/conflict/boundaries_utils.py:                        *)
(*   get_country_name_from_iso_code   (codeToName)                         *)
(*   get_iso_code_from_country_name   (nameToCode)                         *)
(*   load_country_boundaries_to_dict  (loadBoundaries)                     *)
(* The external collaborators (pycountry, pathlib, geopandas, the file     *)
(* system) are modelled by small tables and by their possible outcomes.    *)
(***************************************************************************)
EXTENDS Integers, Sequences, FiniteSets, TLC

VARIABLES
    country_names_to_load,   \* argument: sequence of names
    target_adm_level,        \* argument
    release_type,            \* argument
    output_base_folder,      \* argument
    fs,                      \* the file system: cache path -> file status
    pc,                      \* position of the loader
    idx,                     \* position of the for loop in the input (1-based)
    iso_code,                \* local of the loop body
    cache_file_path,         \* local of the loop body
    heap,                    \* the dict objects built so far (object id = index)
    country_boundaries_dict, \* reference (index into heap) of the dict being built
    returned,                \* references returned to the caller, one per call
    nextObj,                 \* id of the next GeoDataFrame object read_file creates
    out,                     \* everything written to stdout, through the logger or print
    trace,                   \* history: external calls and per-item outcome of the current call
    touches,                 \* history: number of changes another process made to the cache
    fsAtCall,                \* history: the file system when the current call started
    exc,                     \* the exception that left the function, if any
    cnArg,                   \* argument of the current get_country_name_from_iso_code call
    cnRes,                   \* its result, Pending before the call
    cnPrevArg, cnPrevRes,    \* argument and result of the call before
    cnLookups,               \* history: the database lookups of the current call
    cnVaried,                \* history: number of times the argument was varied
    lookupFault              \* the database lookup raises instead of answering

loaderVars == <<country_names_to_load, target_adm_level, release_type, output_base_folder,
                fs, pc, idx, iso_code, cache_file_path, heap, country_boundaries_dict,
                returned, nextObj, trace, touches, fsAtCall, exc>>
codeVars == <<cnArg, cnRes, cnPrevArg, cnPrevRes, cnLookups, cnVaried, lookupFault>>
vars == <<loaderVars, out, codeVars>>

----------------------------------------------------------------------------
(* Bounds *)
MaxNames == 2
MaxTouches == 1
MaxCalls == 2
MaxCodeLen == 3
MaxVaried == 2

----------------------------------------------------------------------------
(* Values *)

\* Python's None where a string (a display name, an exception name) is expected
None == "<None>"

\* an optional ISO code: codes are sequences of characters
NoCode == [some |-> FALSE, val |-> <<>>]
Some(c) == [some |-> TRUE, val |-> c]

\* truthiness of `if iso_code:` - None and the empty string are both falsy
Truthy(c) == c.some /\ c.val # <<>>

NoPath == <<>>

Range(s) == {s[k] : k \in 1..Len(s)}

RECURSIVE SeqsUpTo(_, _)
SeqsUpTo(S, n) ==
    IF n = 0 THEN {<<>>}
    ELSE LET shorter == SeqsUpTo(S, n - 1)
         IN  shorter \cup {Append(s, x) : s \in {t \in shorter : Len(t) = n - 1}, x \in S}

----------------------------------------------------------------------------
(* pycountry: the ISO 3166-1 database *)

Countries ==
    { [alpha_2 |-> <<"U", "S">>, alpha_3 |-> <<"U", "S", "A">>, name |-> "United States"],
      [alpha_2 |-> <<"S", "A">>, alpha_3 |-> <<"S", "A", "U">>, name |-> "Saudi Arabia"],
      [alpha_2 |-> <<"A", "U">>, alpha_3 |-> <<"A", "U", "S">>, name |-> "Australia"] }

AUS == <<"A", "U", "S">>
SAU == <<"S", "A", "U">>

ByAlpha3(c) == CHOOSE r \in Countries : r.alpha_3 = c

\* the names the loader is called with; "NaN" stands for a non-string element
\* (a missing value of a data frame column), on which the lookup raises TypeError
CountryNames == {"Australia", "Commonwealth of Australia", "Saudi Arabia", "Nowhereland", "NaN"}

\* pycountry.countries.search_fuzzy: a ranked list of matches, or an exception
SearchFuzzy(country_name) ==
    CASE country_name = "Australia" -> [raises |-> None, list |-> <<ByAlpha3(AUS)>>]
      [] country_name = "Commonwealth of Australia" -> [raises |-> None, list |-> <<ByAlpha3(AUS)>>]
      [] country_name = "Saudi Arabia" -> [raises |-> None, list |-> <<ByAlpha3(SAU), ByAlpha3(AUS)>>]
      [] country_name = "NaN" -> [raises |-> "TypeError", list |-> <<>>]
      [] OTHER -> [raises |-> "LookupError", list |-> <<>>]

----------------------------------------------------------------------------
(* SimpleLogger *)

Line(sev, msg, who) == [sev |-> sev, msg |-> msg, who |-> who]

logger_info(msg, who) == Line("INFO", msg, who)
logger_error(msg, who) == Line("ERROR", msg, who)

----------------------------------------------------------------------------
(* get_iso_code_from_country_name *)

\* variant: without the `except LookupError` clause, a failed match reaches the general handler
get_iso_code_logs_every_failure(country_name) ==
    LET country == SearchFuzzy(country_name) IN
    CASE country.raises = None ->
           IF country.list # <<>>
           THEN [ret |-> Some(country.list[1].alpha_3), raised |-> None, log |-> <<>>]
           ELSE [ret |-> NoCode, raised |-> None, log |-> <<>>]
      [] OTHER ->
           [ret |-> NoCode, raised |-> None,
            log |-> <<logger_error("error looking up ISO code", country_name)>>]

\* ret: the value returned; raised: the exception that escapes; log: lines logged
get_iso_code_from_country_name(country_name) ==
    LET country == SearchFuzzy(country_name) IN
    CASE country.raises = None ->
           IF country.list # <<>>
           THEN [ret |-> Some(country.list[1].alpha_3), raised |-> None, log |-> <<>>]
           ELSE [ret |-> NoCode, raised |-> None, log |-> <<>>]
      [] country.raises = "LookupError" ->
           [ret |-> NoCode, raised |-> None, log |-> <<>>]
      [] OTHER ->
           [ret |-> NoCode, raised |-> None,
            log |-> <<logger_error("error looking up ISO code", country_name)>>]

----------------------------------------------------------------------------
(* pathlib and the cache directory *)

Levels == {0, 1}
ReleaseTypes == {"gbOpen"}
Folders == {"cache", "nodir", "noaccess"}
ExistingFolders == {"cache"}
\* folders the process has no permission to search
DeniedFolders == {"noaccess"}
CacheCodes == {AUS, SAU}

\* variant: the folder is resolved strictly, a missing folder raises
PathCtorStrict(base) ==
    [path |-> base, raised |-> IF base \in ExistingFolders THEN None ELSE "FileNotFoundError"]

\* Path(output_base_folder): a pure conversion, it does not look at the disk
PathCtor(base) == [path |-> base, raised |-> None]

\* variant: the level is not part of the file name
CacheFilePathLevel0(base, code, level, release) ==
    <<base, <<code, "_ADM", 0, "_", release, ".geojson">> >>

\* output_base_folder / f"{iso_code}_ADM{target_adm_level}_{release_type}.geojson"
CacheFilePath(base, code, level, release) ==
    <<base, <<code, "_ADM", level, "_", release, ".geojson">> >>

\* the files a fetch step may have left in the existing cache folder
Files == {<<b, <<c, "_ADM", l, "_", r, ".geojson">> >> :
             b \in ExistingFolders, c \in CacheCodes, l \in Levels, r \in ReleaseTypes}

\* the cache directories the loader is started on: any set of files, of which
\* the level 0 file of Australia may be unreadable (a call on another folder
\* never looks into the cache folder, which is then taken empty)
CacheStates ==
    {f \in [Files -> {"absent", "corrupt", "valid"}] :
        \A p \in Files : f[p] = "corrupt" => p = <<"cache", <<AUS, "_ADM", 0, "_", "gbOpen", ".geojson">> >>}

Status(fsys, path) == IF path \in DOMAIN fsys THEN fsys[path] ELSE "absent"

\* variant: existence is tested by opening the file for appending, which creates it
PathExistsByOpening(fsys, path) ==
    [ret |-> Status(fsys, path) # "absent",
     raises |-> IF path[1] \in DeniedFolders THEN "PermissionError" ELSE None,
     fs |-> IF Status(fsys, path) # "absent" THEN fsys
            ELSE IF path \in DOMAIN fsys THEN [fsys EXCEPT ![path] = "corrupt"]
            ELSE (path :> "corrupt") @@ fsys]

\* Path.exists(): the answer, and the file system it leaves behind. stat()
\* errors other than "no such file" are not swallowed: a folder that may not be
\* searched makes exists() raise PermissionError.
PathExists(fsys, path) ==
    [ret |-> Status(fsys, path) # "absent",
     raises |-> IF path[1] \in DeniedFolders THEN "PermissionError" ELSE None,
     fs |-> fsys]

\* geopandas.read_file(path): a new GeoDataFrame object, or an exception
ReadFile(fsys, path, obj) ==
    CASE Status(fsys, path) = "absent" ->
           [raises |-> "DataSourceError", gdf |-> <<>>, fs |-> fsys]
      [] Status(fsys, path) = "corrupt" ->
           [raises |-> "ParseError", gdf |-> <<>>, fs |-> fsys]
      [] OTHER ->
           [raises |-> None,
            gdf |-> <<[src |-> path, data |-> Status(fsys, path), obj |-> obj]>>,
            fs |-> fsys]

\* `except Exception as e` around read_file and the insertion
ReadExceptCatches(e) == TRUE

----------------------------------------------------------------------------
(* dict *)

Keys(d) == {d[k][1] : k \in 1..Len(d)}
KeySeq(d) == [k \in 1..Len(d) |-> d[k][1]]
PosOf(d, key) == CHOOSE k \in 1..Len(d) : d[k][1] = key
DictGet(d, key) == d[PosOf(d, key)][2]

\* variant: the entry is put in front of the others
DictSetInFront(d, key, value) ==
    <<<<key, value>>>> \o SelectSeq(d, LAMBDA e : e[1] # key)

\* variant: dict.setdefault, an existing key keeps its value
DictSetDefault(d, key, value) ==
    IF key \in Keys(d) THEN d ELSE Append(d, <<key, value>>)

\* d[key] = value: a new key goes last, an existing key keeps its place
DictSet(d, key, value) ==
    IF key \in Keys(d)
    THEN [d EXCEPT ![PosOf(d, key)] = <<key, value>>]
    ELSE Append(d, <<key, value>>)

\* variant: a module-level dict, the same object on every call
AllocDictShared(h) ==
    IF h = <<>> THEN [heap |-> <<<<>>>>, ref |-> 1] ELSE [heap |-> h, ref |-> 1]

\* country_boundaries_dict = {}: a new object on every call
AllocDict(h) == [heap |-> Append(h, <<>>), ref |-> Len(h) + 1]

----------------------------------------------------------------------------
(* get_country_name_from_iso_code *)

Pending == "<pending>"

Alphabet == {"a", "s", "u", "A", "S", "U", " "}

IsSpace(ch) == ch = " "

UpperCh(ch) ==
    CASE ch = "a" -> "A"
      [] ch = "s" -> "S"
      [] ch = "u" -> "U"
      [] OTHER -> ch

LowerCh(ch) ==
    CASE ch = "A" -> "a"
      [] ch = "S" -> "s"
      [] ch = "U" -> "u"
      [] OTHER -> ch

RECURSIVE LStrip(_)
LStrip(s) == IF s # <<>> /\ IsSpace(Head(s)) THEN LStrip(Tail(s)) ELSE s

RECURSIVE RStrip(_)
RStrip(s) == IF s # <<>> /\ IsSpace(s[Len(s)]) THEN RStrip(SubSeq(s, 1, Len(s) - 1)) ELSE s

\* str.strip()
Strip(s) == RStrip(LStrip(s))

\* str.upper()
Upper(s) == [k \in 1..Len(s) |-> UpperCh(s[k])]

\* variant: no strip()
NormalizeCodeNoStrip(arg) == Upper(arg)

\* str(iso_code).strip().upper()
NormalizeCode(arg) == Upper(Strip(arg))

\* pycountry.countries.get(alpha_2=...) / get(alpha_3=...): the record, nothing, or an exception
CountriesGet(field, key, fault) ==
    LET hits == {r \in Countries : IF field = "alpha_2" THEN r.alpha_2 = key ELSE r.alpha_3 = key}
    IN  IF fault THEN [raises |-> "Exception", found |-> <<>>]
        ELSE IF hits = {} THEN [raises |-> None, found |-> <<>>]
        ELSE [raises |-> None, found |-> <<CHOOSE r \in hits : TRUE>>]

\* ret: the value returned; lookups: the lookups made; log: lines printed
get_country_name_from_iso_code(arg, fault) ==
    LET code == NormalizeCode(arg)
        by2 == CountriesGet("alpha_2", code, fault)
        by3 == CountriesGet("alpha_3", code, fault)
        failed == <<Line("PRINT", "error looking up ISO code", "")>>
    IN  CASE by2.raises # None ->
               [ret |-> None, lookups |-> <<<<"alpha_2", code>>>>, log |-> failed]
          [] by2.raises = None /\ by2.found # <<>> ->
               [ret |-> by2.found[1].name, lookups |-> <<<<"alpha_2", code>>>>, log |-> <<>>]
          [] by2.raises = None /\ by2.found = <<>> /\ by3.raises # None ->
               [ret |-> None, lookups |-> <<<<"alpha_2", code>>, <<"alpha_3", code>>>>,
                log |-> failed]
          [] by2.raises = None /\ by2.found = <<>> /\ by3.raises = None /\ by3.found # <<>> ->
               [ret |-> by3.found[1].name,
                lookups |-> <<<<"alpha_2", code>>, <<"alpha_3", code>>>>, log |-> <<>>]
          [] OTHER ->
               [ret |-> None, lookups |-> <<<<"alpha_2", code>>, <<"alpha_3", code>>>>,
                log |-> <<>>]

CodeFrame == UNCHANGED <<loaderVars, lookupFault>>

\* a call of get_country_name_from_iso_code(cnArg)
CodeToName ==
    /\ cnRes = Pending
    /\ LET r == get_country_name_from_iso_code(cnArg, lookupFault)
       IN  /\ cnRes' = r.ret
           /\ cnLookups' = r.lookups
           /\ out' = out \o r.log
    /\ UNCHANGED <<cnArg, cnPrevArg, cnPrevRes, cnVaried>>
    /\ CodeFrame

\* the caller goes on to a new argument, keeping the last call for comparison
NewArg(a) ==
    /\ cnRes # Pending
    /\ cnVaried < MaxVaried
    /\ cnArg' = a
    /\ cnRes' = Pending
    /\ cnPrevArg' = cnArg
    /\ cnPrevRes' = cnRes
    /\ cnLookups' = <<>>
    /\ cnVaried' = cnVaried + 1
    /\ UNCHANGED out
    /\ CodeFrame

\* the same code with one letter in the other case
ChangeCase ==
    \E k \in 1..Len(cnArg) :
        /\ ~IsSpace(cnArg[k])
        /\ NewArg([cnArg EXCEPT ![k] = IF UpperCh(@) = @ THEN LowerCh(@) ELSE UpperCh(@)])

\* the same code with one more blank before or after it
PadBlank ==
    \/ NewArg(<<" ">> \o cnArg)
    \/ NewArg(Append(cnArg, " "))

\* the other code of the same country: 2-letter for 3-letter and back
OtherForm ==
    \E c \in Countries :
        \/ cnArg = c.alpha_2 /\ NewArg(c.alpha_3)
        \/ cnArg = c.alpha_3 /\ NewArg(c.alpha_2)

----------------------------------------------------------------------------
(* load_country_boundaries_to_dict *)

\* obj: the GeoDataFrame object involved, 0 when there is none
Event(op, k, code, path, res, obj) ==
    [op |-> op, i |-> k, code |-> code, path |-> path, res |-> res, obj |-> obj]

\* the lines logged after the loop
Summary(d) ==
    <<logger_info("contents of the final dict", "")>> \o
    (IF d # <<>>
     THEN [k \in 1..Len(d) |-> logger_info("loaded GeoDataFrame with features", d[k][1])]
     ELSE <<logger_info("the dictionary is empty", "")>>)

\* entry of the function up to the loop
Enter ==
    LET p == PathCtor(output_base_folder)
        a == AllocDict(heap)
    IN  IF p.raised # None
        THEN /\ pc' = "raised"
             /\ exc' = p.raised
             /\ UNCHANGED <<heap, country_boundaries_dict, out, idx, trace, fsAtCall>>
        ELSE /\ heap' = a.heap
             /\ country_boundaries_dict' = a.ref
             /\ out' = Append(out, logger_info("creating dictionary", ""))
             /\ idx' = 1
             /\ trace' = <<>>
             /\ fsAtCall' = fs
             /\ pc' = "for"
             /\ exc' = None

Call ==
    /\ pc = "idle"
    /\ Enter
    /\ UNCHANGED <<country_names_to_load, target_adm_level, release_type, output_base_folder,
                   fs, iso_code, cache_file_path, returned, nextObj, touches, codeVars>>

\* a further call with the same arguments
CallAgain ==
    /\ pc = "returned"
    /\ Len(returned) < MaxCalls
    /\ Enter
    /\ UNCHANGED <<country_names_to_load, target_adm_level, release_type, output_base_folder,
                   fs, iso_code, cache_file_path, returned, nextObj, touches, codeVars>>

\* the loop takes the next name and resolves its code
ResolveItem ==
    /\ pc = "for"
    /\ idx <= Len(country_names_to_load)
    /\ LET country_name == country_names_to_load[idx]
           r == get_iso_code_from_country_name(country_name)
       IN  IF r.raised # None
           THEN /\ pc' = "raised"
                /\ exc' = r.raised
                /\ out' = out \o r.log
                /\ trace' = Append(trace, Event("resolve", idx, NoCode, NoPath, "raised", 0))
                /\ UNCHANGED <<iso_code, cache_file_path, idx>>
           ELSE IF Truthy(r.ret)
           THEN /\ iso_code' = r.ret
                /\ cache_file_path' = CacheFilePath(output_base_folder, r.ret.val,
                                                    target_adm_level, release_type)
                /\ out' = out \o r.log
                /\ trace' = Append(trace, Event("resolve", idx, r.ret, NoPath, "code", 0))
                /\ pc' = "exists"
                /\ UNCHANGED <<idx, exc>>
           ELSE /\ iso_code' = r.ret
                /\ out' = (out \o r.log) \o <<logger_info("could not find ISO code", country_name)>>
                /\ trace' = trace \o <<Event("resolve", idx, r.ret, NoPath, "absent", 0),
                                       Event("skip", idx, r.ret, NoPath, "no code", 0)>>
                /\ idx' = idx + 1
                /\ pc' = "for"
                /\ UNCHANGED <<cache_file_path, exc>>
    /\ UNCHANGED <<country_names_to_load, target_adm_level, release_type, output_base_folder,
                   fs, heap, country_boundaries_dict, returned, nextObj, touches, fsAtCall,
                   codeVars>>

\* variant: the file is read whatever the existence check says
CheckCacheThenReadAnyway ==
    /\ pc = "exists"
    /\ LET country_name == country_names_to_load[idx]
           e == PathExists(fs, cache_file_path)
       IN  /\ fs' = e.fs
           /\ IF e.raises # None
              THEN /\ pc' = "raised"
                   /\ exc' = e.raises
                   /\ trace' = Append(trace, Event("exists", idx, iso_code, cache_file_path, "raised", 0))
                   /\ UNCHANGED <<out, idx>>
              ELSE IF e.ret
              THEN /\ out' = Append(out, logger_info("loading boundary data", country_name))
                   /\ trace' = Append(trace, Event("exists", idx, iso_code, cache_file_path, "true", 0))
                   /\ pc' = "read"
                   /\ UNCHANGED <<idx, exc>>
              ELSE /\ out' = Append(out, logger_info("cache file not found", country_name))
                   /\ trace' = Append(trace, Event("exists", idx, iso_code, cache_file_path, "false", 0))
                   /\ pc' = "read"
                   /\ UNCHANGED <<idx, exc>>
    /\ UNCHANGED <<country_names_to_load, target_adm_level, release_type, output_base_folder,
                   iso_code, cache_file_path, heap, country_boundaries_dict, returned, nextObj,
                   touches, fsAtCall, codeVars>>

\* cache_file_path.exists()
CheckCache ==
    /\ pc = "exists"
    /\ LET country_name == country_names_to_load[idx]
           e == PathExists(fs, cache_file_path)
       IN  /\ fs' = e.fs
           /\ IF e.raises # None
              THEN /\ pc' = "raised"
                   /\ exc' = e.raises
                   /\ trace' = Append(trace, Event("exists", idx, iso_code, cache_file_path, "raised", 0))
                   /\ UNCHANGED <<out, idx>>
              ELSE IF e.ret
              THEN /\ out' = Append(out, logger_info("loading boundary data", country_name))
                   /\ trace' = Append(trace, Event("exists", idx, iso_code, cache_file_path, "true", 0))
                   /\ pc' = "read"
                   /\ UNCHANGED <<idx, exc>>
              ELSE /\ out' = Append(out, logger_info("cache file not found", country_name))
                   /\ trace' = trace \o <<Event("exists", idx, iso_code, cache_file_path, "false", 0),
                                          Event("skip", idx, iso_code, cache_file_path, "no file", 0)>>
                   /\ idx' = idx + 1
                   /\ pc' = "for"
                   /\ UNCHANGED exc
    /\ UNCHANGED <<country_names_to_load, target_adm_level, release_type, output_base_folder,
                   iso_code, cache_file_path, heap, country_boundaries_dict, returned, nextObj,
                   touches, fsAtCall, codeVars>>

\* gpd.read_file(cache_file_path) and the insertion, inside try/except
LoadItem ==
    /\ pc = "read"
    /\ LET country_name == country_names_to_load[idx]
           r == ReadFile(fs, cache_file_path, nextObj)
       IN  /\ fs' = r.fs
           /\ IF r.raises = None
              THEN /\ heap' = [heap EXCEPT ![country_boundaries_dict] =
                                               DictSet(@, country_name, r.gdf[1])]
                   /\ nextObj' = nextObj + 1
                   /\ out' = Append(out, logger_info("successfully loaded", country_name))
                   /\ trace' = trace \o <<Event("read", idx, iso_code, cache_file_path, "ok", nextObj),
                                          Event("insert", idx, iso_code, cache_file_path, "ok", nextObj)>>
                   /\ idx' = idx + 1
                   /\ pc' = "for"
                   /\ UNCHANGED exc
              ELSE IF ReadExceptCatches(r.raises)
              THEN /\ out' = Append(out, logger_error("error loading GeoDataFrame", country_name))
                   /\ trace' = trace \o <<Event("read", idx, iso_code, cache_file_path, "failed", 0),
                                          Event("skip", idx, iso_code, cache_file_path, "read failed", 0)>>
                   /\ idx' = idx + 1
                   /\ pc' = "for"
                   /\ UNCHANGED <<heap, nextObj, exc>>
              ELSE /\ pc' = "raised"
                   /\ exc' = r.raises
                   /\ trace' = Append(trace, Event("read", idx, iso_code, cache_file_path, "failed", 0))
                   /\ UNCHANGED <<heap, nextObj, out, idx>>
    /\ UNCHANGED <<country_names_to_load, target_adm_level, release_type, output_base_folder,
                   iso_code, cache_file_path, country_boundaries_dict, returned, touches,
                   fsAtCall, codeVars>>

\* the loop is exhausted: log the summary and return the dict
Return ==
    /\ pc = "for"
    /\ idx > Len(country_names_to_load)
    /\ out' = out \o Summary(heap[country_boundaries_dict])
    /\ returned' = Append(returned, country_boundaries_dict)
    /\ pc' = "returned"
    /\ UNCHANGED <<country_names_to_load, target_adm_level, release_type, output_base_folder,
                   fs, idx, iso_code, cache_file_path, heap, country_boundaries_dict, nextObj,
                   trace, touches, fsAtCall, exc, codeVars>>

\* Another process changes the cache file the loader is about to examine.
\* A change at any other moment, or to another file, commutes with the
\* loader's steps up to its next file operation, so only these are modelled.
EnvTouch ==
    /\ pc \in {"exists", "read"}
    /\ touches < MaxTouches
    /\ cache_file_path \in DOMAIN fs
    /\ \E s \in {"absent", "corrupt", "valid"} \ {fs[cache_file_path]} :
           fs' = [fs EXCEPT ![cache_file_path] = s]
    /\ touches' = touches + 1
    /\ UNCHANGED <<country_names_to_load, target_adm_level, release_type, output_base_folder,
                   pc, idx, iso_code, cache_file_path, heap, country_boundaries_dict, returned,
                   nextObj, out, trace, fsAtCall, exc, codeVars>>

CodeInit ==
    /\ cnArg = <<>>
    /\ cnRes = Pending
    /\ cnPrevArg = <<>>
    /\ cnPrevRes = Pending
    /\ cnLookups = <<>>
    /\ cnVaried = 0
    /\ lookupFault = FALSE

Init ==
    /\ country_names_to_load \in SeqsUpTo(CountryNames, MaxNames)
    /\ target_adm_level \in Levels
    /\ release_type \in ReleaseTypes
    /\ output_base_folder \in Folders
    /\ fs \in IF output_base_folder \in ExistingFolders
              THEN CacheStates
              ELSE {[p \in Files |-> "absent"]}
    /\ pc = "idle"
    /\ idx = 0
    /\ iso_code = NoCode
    /\ cache_file_path = NoPath
    /\ heap = <<>>
    /\ country_boundaries_dict = 0
    /\ returned = <<>>
    /\ nextObj = 1
    /\ out = <<>>
    /\ trace = <<>>
    /\ touches = 0
    /\ fsAtCall = fs
    /\ exc = None
    /\ CodeInit

Next == Call \/ ResolveItem \/ CheckCache \/ LoadItem \/ Return \/ EnvTouch

Spec == Init /\ [][Next]_vars

NextTwice == Call \/ CallAgain \/ ResolveItem \/ CheckCache \/ LoadItem \/ Return

SpecTwice == Init /\ [][NextTwice]_vars

InitCodes ==
    /\ country_names_to_load = <<>>
    /\ target_adm_level = 0
    /\ release_type = "gbOpen"
    /\ output_base_folder = "cache"
    /\ fs = [p \in Files |-> "absent"]
    /\ pc = "idle"
    /\ idx = 0
    /\ iso_code = NoCode
    /\ cache_file_path = NoPath
    /\ heap = <<>>
    /\ country_boundaries_dict = 0
    /\ returned = <<>>
    /\ nextObj = 1
    /\ out = <<>>
    /\ trace = <<>>
    /\ touches = 0
    /\ fsAtCall = fs
    /\ exc = None
    /\ cnArg \in SeqsUpTo(Alphabet, MaxCodeLen)
    /\ cnRes = Pending
    /\ cnPrevArg = <<>>
    /\ cnPrevRes = Pending
    /\ cnLookups = <<>>
    /\ cnVaried = 0
    /\ lookupFault \in BOOLEAN

NextCodes == CodeToName \/ ChangeCase \/ PadBlank \/ OtherForm

SpecCodes == InitCodes /\ [][NextCodes]_vars

----------------------------------------------------------------------------
(* Properties *)

\* the dict of the current call, and the dict the last call returned
Catalog == IF country_boundaries_dict = 0 THEN <<>> ELSE heap[country_boundaries_dict]
Result == heap[returned[Len(returned)]]

Events == Range(trace)
EventsOf(k) == SelectSeq(trace, LAMBDA e : e.i = k)
OpsOf(k) == LET ev == EventsOf(k) IN [j \in 1..Len(ev) |-> <<ev[j].op, ev[j].res>>]
Has(op, k, res) == \E e \in Events : e.op = op /\ e.i = k /\ e.res = res
Items == 1..Len(country_names_to_load)

\* the file name the documentation gives for a code, written out
ExpectedFile(code) ==
    <<output_base_folder, <<code, "_ADM", target_adm_level, "_", release_type, ".geojson">> >>

\* what the database answers for a name
Matches(n) == SearchFuzzy(n).raises = None /\ SearchFuzzy(n).list # <<>>
BestMatch(n) == SearchFuzzy(n).list[1].alpha_3
InternalError(n) == SearchFuzzy(n).raises \notin {None, "LookupError"}

SkipReasons == {e.res : e \in {x \in Events : x.op = "skip"}}

\* C1: load_country_boundaries_to_dict never lets an exception out: whatever
\* the lookup, the existence check and the reader do, no state has an escaped
\* exception, every item the loop has left ended in exactly one insert or
\* skip, and a call that returned went through the whole input.
C1_NoExceptionEscapes ==
    /\ pc # "raised"
    /\ exc = None
    /\ pc \in {"for", "exists", "read", "returned"} =>
          \A k \in Items : k < idx =>
              Cardinality({j \in 1..Len(trace) :
                              trace[j].i = k /\ trace[j].op \in {"insert", "skip"}}) = 1
    /\ pc = "returned" => idx = Len(country_names_to_load) + 1

\* an item went through all three gates, as the calls of the run show
PassedGates(k) ==
    \E r \in Events :
        /\ r.op = "resolve" /\ r.i = k /\ r.res = "code"
        /\ \E x \in Events :
              /\ x.op = "exists" /\ x.i = k /\ x.res = "true"
              /\ x.path = ExpectedFile(r.code.val)
              /\ \E l \in Events : l.op = "read" /\ l.i = k /\ l.res = "ok" /\ l.path = x.path

\* C2: the keys of the returned catalog are exactly the input names that got
\* a code, whose file <base>/<code>_ADM<level>_<release>.geojson existed and
\* was read; on a cache nobody else changed these are the names whose best
\* match has a valid file.
C2_KeysAreLoadedNames ==
    pc = "returned" =>
        /\ Keys(Result) = {country_names_to_load[k] : k \in {j \in Items : PassedGates(j)}}
        /\ touches = 0 =>
              Keys(Result) = {n \in Range(country_names_to_load) :
                                 Matches(n) /\ Status(fs, ExpectedFile(BestMatch(n))) = "valid"}

\* C2 witness: a call at level 1 returned one name and dropped another, whose
\* file was missing
C2_Witness ==
    /\ pc = "returned"
    /\ touches = 0
    /\ target_adm_level = 1
    /\ Keys(Result) # {}
    /\ SkipReasons = {"no file"}

NameErrorLines(n) ==
    {j \in 1..Len(out) : out[j] = [sev |-> "ERROR", msg |-> "error looking up ISO code", who |-> n]}
ResolveEvents(n) ==
    {j \in 1..Len(trace) : trace[j].op = "resolve" /\ country_names_to_load[trace[j].i] = n}

\* C3 as stated: every absent result of get_iso_code_from_country_name, for
\* no match as for an internal error, is logged as an error.
C3_AbsentAlwaysLogged ==
    \A e \in Events :
        e.op = "resolve" /\ e.res = "absent" => NameErrorLines(country_names_to_load[e.i]) # {}

\* C3 amended: get_iso_code_from_country_name never raises, a name without a
\* match and a name whose lookup fails both give the absent result, and an
\* error line is logged once per call for an internal error of the lookup
\* and never for a name that merely has no match.
C3_AbsentLoggedOnlyOnInternalError ==
    /\ \A e \in Events : e.op = "resolve" => e.res # "raised"
    /\ \A e \in Events :
          e.op = "resolve" =>
             LET n == country_names_to_load[e.i]
             IN  /\ ~Matches(n) => e.res = "absent" /\ e.code = NoCode
                 /\ Matches(n) => e.res = "code" /\ e.code = Some(BestMatch(n))
                 /\ Cardinality(NameErrorLines(n)) =
                       IF InternalError(n) THEN Cardinality(ResolveEvents(n)) ELSE 0

\* C3 witness: one name had no match and another made the lookup fail
C3_Witness ==
    /\ Has("resolve", 1, "absent") /\ Has("resolve", 2, "absent")
    /\ ~InternalError(country_names_to_load[1])
    /\ InternalError(country_names_to_load[2])
    /\ NameErrorLines(country_names_to_load[2]) # {}

LowerLetters == {"a", "s", "u"}

\* key is arg without its surrounding blanks and in upper case
IsTrimmedUpper(key, arg) ==
    /\ \A k \in 1..Len(key) : key[k] \notin LowerLetters
    /\ key # <<>> => ~IsSpace(key[1]) /\ ~IsSpace(key[Len(key)])
    /\ \E lead \in 0..Len(arg) :
          /\ lead + Len(key) <= Len(arg)
          /\ \A k \in 1..Len(arg) :
                IF k > lead /\ k <= lead + Len(key)
                THEN UpperCh(arg[k]) = key[k - lead]
                ELSE IsSpace(arg[k])

HasCode(field, key) ==
    \E c \in Countries : IF field = "alpha_2" THEN c.alpha_2 = key ELSE c.alpha_3 = key

\* C4: get_country_name_from_iso_code looks up the trimmed, upper-cased
\* argument as a 2-letter code first and as a 3-letter code only when that
\* finds nothing, returns the name of the first match and None when neither
\* matches; arguments that differ in case or surrounding blanks, and the two
\* codes of one country, give the same result.
C4_CodeToName ==
    cnRes # Pending =>
        /\ Len(cnLookups) \in {1, 2}
        /\ cnLookups[1][1] = "alpha_2"
        /\ IsTrimmedUpper(cnLookups[1][2], cnArg)
        /\ Len(cnLookups) = 2 =>
              /\ cnLookups[2] = <<"alpha_3", cnLookups[1][2]>>
              /\ ~HasCode("alpha_2", cnLookups[1][2])
        /\ Len(cnLookups) = 1 => lookupFault \/ HasCode("alpha_2", cnLookups[1][2])
        /\ ~lookupFault =>
              \A c \in Countries :
                  cnLookups[1][2] \in {c.alpha_2, c.alpha_3} => cnRes = c.name
        /\ cnRes = None <=>
              \/ lookupFault
              \/ ~HasCode("alpha_2", cnLookups[1][2]) /\ ~HasCode("alpha_3", cnLookups[1][2])
        /\ cnPrevRes # Pending => cnRes = cnPrevRes

\* C4 witness: " uSa" after "uSa", both named the United States, the second
\* by the 3-letter lookup
C4_Witness ==
    /\ cnArg = <<" ", "u", "S", "a">>
    /\ cnPrevArg = <<"u", "S", "a">>
    /\ cnPrevRes = "United States"
    /\ cnRes = "United States"
    /\ Len(cnLookups) = 2

Equivalent(g, h) == g.src = h.src /\ g.data = h.data

\* C5: two calls with the same arguments on an unchanged cache return
\* catalogs with the same keys, in the same order, and equivalent records;
\* each call returns a new dict whose records are new objects, and a dict
\* once returned is never changed by a later call.
C5_IndependentEqualCatalogs ==
    /\ [](\A a, b \in 1..Len(returned) :
            a < b =>
               /\ returned[a] # returned[b]
               /\ KeySeq(heap[returned[a]]) = KeySeq(heap[returned[b]])
               /\ \A k \in 1..Len(heap[returned[a]]) :
                     /\ Equivalent(heap[returned[a]][k][2], heap[returned[b]][k][2])
                     /\ heap[returned[a]][k][2].obj # heap[returned[b]][k][2].obj)
    /\ [][\A a \in 1..Len(returned) : heap'[returned[a]] = heap[returned[a]]]_vars

\* C5 witness: the second call returned a catalog with an entry, having
\* skipped a name
C5_Witness ==
    /\ Len(returned) = 2
    /\ pc = "returned"
    /\ Len(Result) = 1
    /\ SkipReasons # {}

\* C6: no step of the loader changes the file system: the files and their
\* contents change only when another process changes them.
C6_FileSystemUnchanged == [][touches' = touches => fs' = fs]_vars

\* C6 witness: a call that checked a missing file and read an existing one
\* returned on the cache it started on
C6_Witness ==
    /\ pc = "returned"
    /\ touches = 0
    /\ fs = fsAtCall
    /\ \E e \in Events : e.op = "exists" /\ e.res = "false"
    /\ \E e \in Events : e.op = "read" /\ e.res = "ok"

FirstLoaded(key) ==
    CHOOSE k \in Items :
        /\ Has("insert", k, "ok") /\ country_names_to_load[k] = key
        /\ \A j \in Items :
              Has("insert", j, "ok") /\ country_names_to_load[j] = key => k <= j

C8_EmptyInput ==
    country_names_to_load = <<>> =>
        /\ pc \in {"idle", "for", "returned"}
        /\ trace = <<>>
        /\ Catalog = <<>>
        /\ pc = "returned" => Result = <<>>

\* C8 witness: an empty input, level 1, on a folder that does not exist
C8_Witness ==
    /\ country_names_to_load = <<>>
    /\ pc = "returned"
    /\ target_adm_level = 1
    /\ output_base_folder \notin ExistingFolders
    /\ Result = <<>>

FinishedItem ==
    { << <<"resolve", "absent">>, <<"skip", "no code">> >>,
      << <<"resolve", "code">>, <<"exists", "false">>, <<"skip", "no file">> >>,
      << <<"resolve", "code">>, <<"exists", "true">>, <<"read", "ok">>, <<"insert", "ok">> >>,
      << <<"resolve", "code">>, <<"exists", "true">>, <<"read", "failed">>,
         <<"skip", "read failed">> >> }

StartedItem ==
    { <<>>,
      << <<"resolve", "code">> >>,
      << <<"resolve", "code">>, <<"exists", "true">> >> }

\* C9: items are taken in input order, one at a time; each goes once through
\* resolve, then the existence check if a code was found, then the reader if
\* the file exists, on the path that was checked; nothing is done twice.
C9_GatesInSequence ==
    pc \in {"for", "exists", "read", "returned"} =>
        /\ \A p \in 1..Len(trace) - 1 : trace[p].i <= trace[p + 1].i
        /\ \A k \in Items :
              /\ k < idx => OpsOf(k) \in FinishedItem
              /\ k = idx => OpsOf(k) \in StartedItem
              /\ k > idx => OpsOf(k) = <<>>
        /\ \A e \in Events :
              e.op \in {"exists", "read", "insert"} =>
                 \E r \in Events :
                     r.op = "resolve" /\ r.i = e.i /\ e.path = ExpectedFile(r.code.val)
        /\ pc = "exists" <=> (idx \in Items /\ Len(OpsOf(idx)) = 1)
        /\ pc = "read" <=> (idx \in Items /\ Len(OpsOf(idx)) = 2)

\* C9 witness: two items, the first unreadable, the second inserted
C9_Witness ==
    /\ pc = "returned"
    /\ Has("skip", 1, "read failed")
    /\ Has("insert", 2, "ok")
    /\ Len(trace) = 8

LastInsert(key) ==
    CHOOSE e \in Events :
        /\ e.op = "insert" /\ country_names_to_load[e.i] = key
        /\ \A x \in Events :
              x.op = "insert" /\ country_names_to_load[x.i] = key => x.i <= e.i

\* C10: each occurrence of a repeated name goes through the gates on its own
\* and is read on its own; the catalog has one entry per loaded name, holding
\* the record of the last occurrence that loaded, whatever happened to later
\* occurrences; names with the same code have entries of their own.
C10_RepeatedNames ==
    pc \in {"for", "exists", "read", "returned"} =>
        /\ Cardinality(Keys(Catalog)) = Len(Catalog)
        /\ Keys(Catalog) = {country_names_to_load[e.i] : e \in {x \in Events : x.op = "insert"}}
        /\ \A key \in Keys(Catalog) :
              /\ DictGet(Catalog, key).obj = LastInsert(key).obj
              /\ DictGet(Catalog, key).src = LastInsert(key).path
        /\ \A k \in Items : k < idx => Has("resolve", k, "code") \/ Has("resolve", k, "absent")
        /\ \A e, x \in Events :
              e.op = "read" /\ x.op = "read" /\ e.res = "ok" /\ x.res = "ok" /\ e.i # x.i
                 => e.obj # x.obj

\* C10 witness: a name given twice was loaded the first time and skipped the
\* second time; its entry is still the record read the first time
C10_Witness ==
    /\ pc = "returned"
    /\ Len(country_names_to_load) = 2
    /\ country_names_to_load[1] = country_names_to_load[2]
    /\ Has("insert", 1, "ok")
    /\ \E e \in Events : e.op = "skip" /\ e.i = 2 /\ e.res \in {"no file", "read failed"}
    /\ Keys(Result) = {country_names_to_load[1]}
    /\ \E e \in Events : e.op = "read" /\ e.i = 1 /\ e.obj = Result[1][2].obj

====
